---- MODULE Spec2Model ----
(***************************************************************************)
(* Model of packet_buffer.go (package astits): packet size auto-detection, *)
(* chunked reads of the source and the ordered queue of concurrently       *)
(* decoded packets.                                                         *)
(*                                                                         *)
(* A byte is represented by the offset it has in the source stream (NoOff   *)
(* for a byte of a freshly made buffer that no read has written), so that   *)
(* every buffer records where each of its bytes comes from; ByteAt gives    *)
(* the byte's value.                                                        *)
(***************************************************************************)
EXTENDS Integers, Sequences, FiniteSets, TLC

VARIABLES
    r,      \* the io.Reader: stream contents, capabilities, cursor
    bad,    \* the decoder's verdicts: offsets at which an undecodable slice starts
    pb,     \* the packetBuffer: b, items, packetSize
    heap,   \* the packetBufferItem objects, by identity: err, p, wg
    gor,    \* the decode goroutines, one per item: pc, i, b
    pc,     \* where the consumer stands
    err,    \* next()'s named result err of the call that dispatched the goroutines
    out,    \* history: the results of the next() calls so far, in call order
    det,    \* history: what newPacketBuffer did (probe read, outcome, cursor)
    chunks  \* history: the chunk reads so far

vars == <<r, bad, pb, heap, gor, pc, err, out, det, chunks>>

----------------------------------------------------------------------------
(* Bounds of the model *)

\* packets per chunk: 10000 in newPacketBuffer, scaled down
ChunkCapacity == 3
\* longest stream, in packets, read with a packet size given by the caller
MaxPackets == 5
\* the packet size the caller gives when it does not ask for auto-detection
SmallPacketSize == 2

\* next() calls made on one buffer
MaxCalls == MaxPackets + 2

----------------------------------------------------------------------------
(* Program constants *)

\* syncByte, 0x47
syncByte == 71
\* a probe window long enough to hold the second sync byte of 204-byte packets
probeLenWide == 204 + 1
\* l, the length of the probe window
probeLen == 193
\* the least index a second sync byte is looked for at
minPacketSize == 188

\* the origin of a byte no read has written: the zero byte of a made buffer
NoOff == -1
\* failAt of a source that never fails
NoFail == -1
\* maxRead of a source that delivers whatever is asked for
Big == 1000000
\* the value of every stream byte that is not a sync byte
fillByte == 255

Min(a, b) == IF a < b THEN a ELSE b

----------------------------------------------------------------------------
(* Errors: a cause and the contexts errors.Wrap put around it, outermost first *)

Nil == [cause |-> "nil", ctx |-> <<>>]
E(c) == [cause |-> c, ctx |-> <<>>]

EOF == E("io.EOF")
ErrUnexpectedEOF == E("io.ErrUnexpectedEOF")
ErrNoMorePackets == E("ErrNoMorePackets")
ErrPacketMustStartWithASyncByte == E("ErrPacketMustStartWithASyncByte")
ErrOnlyOneSyncByte == E("only one sync byte detected")
ErrSource == E("source read error")
ErrSeek == E("source seek error")
ErrDecode == E("decode error")

\* errors.Wrap: nil stays nil
Wrap(e, msg) == IF e = Nil THEN Nil ELSE [cause |-> e.cause, ctx |-> <<msg>> \o e.ctx]

----------------------------------------------------------------------------
(* The source *)

ByteAt(rd, o) ==
    IF o = NoOff THEN 0
    ELSE IF o \in rd.syncAt THEN syncByte ELSE fillByte

\* the offset at which the source stops delivering bytes
Limit(rd) == IF rd.failAt = NoFail THEN rd.len ELSE Min(rd.len, rd.failAt)

\* One Read call for up to want bytes: [n, err, data, r]
Read(rd, want) ==
    IF want = 0 THEN [n |-> 0, err |-> Nil, data |-> <<>>, r |-> rd]
    ELSE IF rd.pos >= Limit(rd)
    THEN [n |-> 0, err |-> IF rd.failAt = NoFail THEN EOF ELSE ErrSource,
          data |-> <<>>, r |-> rd]
    ELSE LET n == Min(Min(want, Limit(rd) - rd.pos), rd.maxRead)
         IN [n |-> n, err |-> Nil,
             data |-> [j \in 1..n |-> rd.pos + j - 1],
             r |-> [rd EXCEPT !.pos = rd.pos + n]]

\* buf with data written over its first bytes
Fill(buf, data) == data \o SubSeq(buf, Len(data) + 1, Len(buf))

Zeros(n) == [j \in 1..n |-> NoOff]

\* io.ReadFull: Read until want bytes are there or a Read fails
RECURSIVE ReadAtLeast(_, _, _)
ReadAtLeast(rd, want, got) ==
    LET rr == Read(rd, want - Len(got))
        now == got \o rr.data
    IN IF Len(now) >= want THEN [n |-> Len(now), err |-> Nil, data |-> now, r |-> rr.r]
       ELSE IF rr.err # Nil
            THEN [n |-> Len(now),
                  err |-> IF rr.err = EOF /\ Len(now) > 0 THEN ErrUnexpectedEOF ELSE rr.err,
                  data |-> now, r |-> rr.r]
            ELSE ReadAtLeast(rr.r, want, now)

ReadFull(rd, want) == ReadAtLeast(rd, want, <<>>)

\* rewind that seeks to where the reader stands (Seek(0, 1))
rewindToCurrent(rd) ==
    IF rd.seekable
    THEN IF rd.seekFails
         THEN [n |-> 0, err |-> Wrap(ErrSeek, "astits: seeking to 0 failed"), r |-> rd]
         ELSE [n |-> rd.pos, err |-> Nil, r |-> rd]
    ELSE [n |-> -1, err |-> Nil, r |-> rd]

\* rewind: [n, err, r]
rewind(rd) ==
    IF rd.seekable
    THEN IF rd.seekFails
         THEN [n |-> 0, err |-> Wrap(ErrSeek, "astits: seeking to 0 failed"), r |-> rd]
         ELSE [n |-> 0, err |-> Nil, r |-> [rd EXCEPT !.pos = 0]]
    ELSE [n |-> -1, err |-> Nil, r |-> rd]

----------------------------------------------------------------------------
(* autoDetectPacketSize *)

\* ScanSync with the floor off by one: idx > 188
ScanSyncAbove(rd, b) ==
    LET hits == {idx \in 0..(Len(b) - 1) :
                   ByteAt(rd, b[idx + 1]) = syncByte /\ idx > minPacketSize}
    IN IF hits = {} THEN -1
       ELSE CHOOSE idx \in hits : \A other \in hits : idx <= other

\* ScanSync that keeps the last sync byte of the window instead of the first
ScanSyncLast(rd, b) ==
    LET hits == {idx \in 0..(Len(b) - 1) :
                   ByteAt(rd, b[idx + 1]) = syncByte /\ idx >= minPacketSize}
    IN IF hits = {} THEN -1
       ELSE CHOOSE idx \in hits : \A other \in hits : idx >= other

\* the loop over the probe window returns at the first index that holds a sync
\* byte and is at least 188: that index, or -1 when the loop runs to its end
ScanSync(rd, b) ==
    LET hits == {idx \in 0..(Len(b) - 1) :
                   ByteAt(rd, b[idx + 1]) = syncByte /\ idx >= minPacketSize}
    IN IF hits = {} THEN -1
       ELSE CHOOSE idx \in hits : \A other \in hits : idx <= other

\* StartsWithSync with the check left out
StartsWithAnything(rd, b) == TRUE

\* line 61: the packet starts with a sync byte
StartsWithSync(rd, b) == ByteAt(rd, b[1]) = syncByte

\* SkipLen that is the part of the window behind the first packet
SkipOvershoot(packetSize) == probeLen - packetSize

\* line 78: ls, the bytes read to sync a reader that cannot be rewound
SkipLen(packetSize) == packetSize - (probeLen - packetSize)

\* [packetSize, err, r, n, skipped]: n is the count the probe read returned,
\* skipped the count the read of line 79 returned (-1 when it was not made)
autoDetectPacketSize(rd) ==
    LET rr == Read(rd, probeLen)
        b == Fill(Zeros(probeLen), rr.data)
        base == [packetSize |-> 0, err |-> Nil, r |-> rr.r, n |-> rr.n, skipped |-> -1]
    IN IF rr.err # Nil
       THEN [base EXCEPT !.err = Wrap(rr.err, "astits: reading first 193 bytes failed")]
       ELSE IF ~StartsWithSync(rd, b)
       THEN [base EXCEPT !.err = ErrPacketMustStartWithASyncByte]
       ELSE LET idx == ScanSync(rd, b)
            IN IF idx = -1
               THEN [base EXCEPT !.err = ErrOnlyOneSyncByte]
               ELSE LET rw == rewind(rr.r)
                    IN IF rw.err # Nil
                       THEN [base EXCEPT !.packetSize = idx,
                                         !.err = Wrap(rw.err, "astits: rewinding failed")]
                       ELSE IF rw.n = -1
                       THEN LET sk == Read(rw.r, SkipLen(idx))
                            IN [base EXCEPT
                                  !.packetSize = idx,
                                  !.r = sk.r,
                                  !.skipped = sk.n,
                                  !.err = Wrap(sk.err, "astits: reading bytes to sync reader failed")]
                       ELSE [base EXCEPT !.packetSize = idx, !.r = rw.r]

----------------------------------------------------------------------------
(* newPacketBuffer *)

\* [pb, err, r, n, skipped]: n is the count the probe read returned (-1 without probe)
newPacketBuffer(rd, packetSize) ==
    LET pb0 == [b |-> <<>>, items |-> <<>>, packetSize |-> packetSize]
    IN IF packetSize = 0
       THEN LET ad == autoDetectPacketSize(rd)
            IN IF ad.err # Nil
               THEN [pb |-> [pb0 EXCEPT !.packetSize = ad.packetSize],
                     err |-> Wrap(ad.err, "astits: auto detecting packet size failed"),
                     r |-> ad.r, n |-> ad.n, skipped |-> ad.skipped]
               ELSE [pb |-> [pb0 EXCEPT !.packetSize = ad.packetSize,
                                        !.b = Zeros(ChunkCapacity * ad.packetSize)],
                     err |-> Nil, r |-> ad.r, n |-> ad.n, skipped |-> ad.skipped]
       ELSE [pb |-> [pb0 EXCEPT !.b = Zeros(ChunkCapacity * packetSize)],
             err |-> Nil, r |-> rd, n |-> -1, skipped |-> -1]

----------------------------------------------------------------------------
(* The decoder, parsePacket: a packet (the slice it was given) or an error *)

NilPacket == <<>>

parsePacket(b) ==
    IF b[1] \in bad THEN [p |-> NilPacket, err |-> ErrDecode]
    ELSE [p |-> b, err |-> Nil]

----------------------------------------------------------------------------
(* next and first *)

CeilDiv(n, d) == (n + d - 1) \div d

\* first that pops the newest item instead of the oldest
firstNewest(items, hp) ==
    IF Len(items) > 0
    THEN [p |-> hp[items[Len(items)]].p, err |-> hp[items[Len(items)]].err,
          items |-> SubSeq(items, 1, Len(items) - 1)]
    ELSE [p |-> <<>>, err |-> Nil, items |-> items]

\* first, once the wait on the head item is over: [p, err, items]
first(items, hp) ==
    IF Len(items) > 0
    THEN [p |-> hp[items[1]].p, err |-> hp[items[1]].err, items |-> Tail(items)]
    ELSE [p |-> NilPacket, err |-> Nil, items |-> items]

\* HeadDone of a first that does not wait on the head item
HeadDoneNoWait(items, hp) == TRUE

\* wg.Wait() of first returns at once
HeadDone(items, hp) == Len(items) = 0 \/ hp[items[1]].wg = 0

\* ReadError without the case of the end of the stream
ReadErrorAlwaysWrapped(e, want) == Wrap(e, "astits: reading bytes failed")

\* the error next returns for a failed chunk read
ReadError(e, want) ==
    IF e = EOF THEN ErrNoMorePackets
    ELSE Wrap(e, "astits: reading bytes failed")

\* ReadFailed that takes every error but the end of the stream for a short read
ReadFailedAtEOFOnly(e) == e = EOF

\* ReadFailed without the exemption of a short last chunk
ReadFailedOnAnyError(e) == e # Nil

\* a chunk read failed for good: neither success nor a short last chunk
ReadFailed(e) == e # Nil /\ e # ErrUnexpectedEOF

\* ItemCount that leaves out a last packet cut short
ItemCountFloor(n, packetSize) == n \div packetSize

\* the number of items made for n bytes read
ItemCount(n, packetSize) == CeilDiv(n, packetSize)

\* Slice with the loop index already advanced to the next packet
SliceOfNext(b, i, packetSize) == SubSeq(b, (i + 1) * packetSize + 1, (i + 2) * packetSize)

\* the slice goroutine i copies out of the chunk buffer
Slice(b, i, packetSize) == SubSeq(b, i * packetSize + 1, (i + 1) * packetSize)

\* ItemErr that wraps the captured err instead of the item's own
ItemErrOfCaptured(perr, captured) ==
    IF captured # Nil THEN Wrap(captured, "astits: building packet failed") ELSE perr

\* item.err as the goroutine leaves it: wrapped when the captured err is not nil
ItemErr(perr, captured) ==
    IF captured # Nil THEN Wrap(perr, "astits: building packet failed") ELSE perr

\* what one next() call returned (p, err), with the item it popped (0: none)
\* and the length of pb.items it left
Result(p, e, item, items) == [p |-> p, err |-> e, item |-> item, pending |-> Len(items)]

HeadId(items) == IF Len(items) > 0 THEN items[1] ELSE 0

----------------------------------------------------------------------------
(* The streams and sources the model runs on *)

\* a stream of len bytes in packets of size ps: a sync byte at every packet
\* start (at offset 0 only when first), further ones at the offsets of extra
Stream(ps, len, extra, firstSync) ==
    [ps |-> ps, len |-> len,
     syncAt |-> {o \in 0..(len - 1) :
                   \/ o % ps = 0 /\ (o # 0 \/ firstSync)
                   \/ o \in extra /\ o # 0}]

\* packet sizes of the streams given to auto-detection
AutoSizes == {188, 192, 204}
\* their lengths, for packet size ps
AutoLens(ps) == {0, 100, ps, 3 * ps, (MaxPackets + 1) * ps}
\* further sync bytes in such a stream, by offset
AutoExtras == {{}, {187}, {190}, {5, 189, 191}}
\* what one Read call of a source delivers at most
AutoMaxReads == {100, 190, Big}
\* where a source starts to fail
AutoFailAts == {0, 150, 193, 400}

Source(st, seekable, seekFails, maxRead, failAt) ==
    [ps |-> st.ps, len |-> st.len, syncAt |-> st.syncAt, seekable |-> seekable,
     seekFails |-> seekFails, maxRead |-> maxRead, failAt |-> failAt, pos |-> 0]

\* where a source of len bytes starts to fail, among the offsets of from
FailAts(from, len) == {NoFail} \cup {m \in from : m <= len}

Seeking == {<<FALSE, FALSE>>, <<TRUE, FALSE>>, <<TRUE, TRUE>>}

AutoSources ==
    UNION {UNION {{Source(Stream(ps, len, extra, fs), sk[1], sk[2], mr, fa) :
                      extra \in AutoExtras, fs \in BOOLEAN, sk \in Seeking,
                      mr \in AutoMaxReads, fa \in FailAts(AutoFailAts, len)} :
                  len \in AutoLens(ps)} :
           ps \in AutoSizes}

GivenSources ==
    UNION {{Source(Stream(SmallPacketSize, len, {}, TRUE), FALSE, FALSE, mr, fa) :
               mr \in {1, Big}, fa \in FailAts(0..len, len)} :
           len \in 0..(MaxPackets * SmallPacketSize)}

\* the decoder verdicts tried on a source: no failure, or one failing slice
\* among those that start one of the first packets of the stream
Verdicts(src) ==
    {{}} \cup {{i * src.ps} : i \in {j \in 0..3 : j * src.ps < src.len}}

Init ==
    /\ \E packetSize \in {0, SmallPacketSize} :
         /\ pb = [b |-> <<>>, items |-> <<>>, packetSize |-> packetSize]
         /\ r \in IF packetSize = 0 THEN AutoSources ELSE GivenSources
         /\ bad \in Verdicts(r)
    /\ heap = <<>>
    /\ gor = <<>>
    /\ pc = "new"
    /\ err = Nil
    /\ out = <<>>
    /\ det = [n |-> -1, skipped |-> -1, err |-> Nil, auto |-> FALSE, start |-> 0]
    /\ chunks = <<>>

----------------------------------------------------------------------------
(* The caller and the consumer *)

\* newPacketBuffer(r, packetSize)
NewPacketBuffer ==
    /\ pc = "new"
    /\ LET nb == newPacketBuffer(r, pb.packetSize)
       IN /\ pb' = nb.pb
          /\ r' = nb.r
          /\ det' = [n |-> nb.n, skipped |-> nb.skipped, err |-> nb.err,
                     auto |-> pb.packetSize = 0, start |-> nb.r.pos]
          /\ pc' = IF nb.err # Nil THEN "failed" ELSE "idle"
    /\ UNCHANGED <<bad, heap, gor, err, out, chunks>>

\* NextCall of a next that reads a chunk on every call, without line 107
NextCallAlwaysReads ==
    /\ pc = "idle"
    /\ Len(out) < MaxCalls
    /\ pc' = "read"
    /\ UNCHANGED <<r, bad, pb, heap, gor, err, out, det, chunks>>

\* next() is called: line 107 enters first, which waits on the head item
NextCall ==
    /\ pc = "idle"
    /\ Len(out) < MaxCalls
    /\ pc' = IF Len(pb.items) > 0 THEN "first" ELSE "read"
    /\ UNCHANGED <<r, bad, pb, heap, gor, err, out, det, chunks>>

\* line 107: the wait is over, first pops the head; next returns it
FirstReturn ==
    /\ pc = "first"
    /\ HeadDone(pb.items, heap)
    /\ LET f == first(pb.items, heap)
       IN /\ pb' = [pb EXCEPT !.items = f.items]
          /\ IF f.p # NilPacket \/ f.err # Nil
             THEN /\ out' = Append(out, Result(f.p, f.err, HeadId(pb.items), f.items))
                  /\ pc' = "idle"
             ELSE /\ out' = out
                  /\ pc' = "read"
    /\ UNCHANGED <<r, bad, heap, gor, err, det, chunks>>

\* lines 112-136: the chunk read, then one item and one goroutine per packet
ReadChunk ==
    /\ pc = "read"
    /\ LET rf == ReadFull(r, Len(pb.b))
           cnt == ItemCount(rf.n, pb.packetSize)
           id0 == Len(heap)
       IN /\ r' = rf.r
          /\ chunks' = Append(chunks, [call |-> Len(out) + 1, at |-> r.pos,
                                       n |-> rf.n, err |-> rf.err,
                                       pending |-> Len(pb.items), id0 |-> id0,
                                       made |-> IF ReadFailed(rf.err) THEN 0 ELSE cnt])
          /\ IF ReadFailed(rf.err)
             THEN /\ pb' = [pb EXCEPT !.b = Fill(pb.b, rf.data)]
                  /\ out' = Append(out, Result(NilPacket, ReadError(rf.err, Len(pb.b)), 0, pb.items))
                  /\ pc' = "idle"
                  /\ UNCHANGED <<heap, gor, err>>
             ELSE /\ pb' = [pb EXCEPT !.b = Fill(pb.b, rf.data),
                                      !.items = pb.items \o [j \in 1..cnt |-> id0 + j]]
                  /\ heap' = heap \o [j \in 1..cnt |-> [err |-> Nil, p |-> NilPacket, wg |-> 1]]
                  /\ gor' = gor \o [j \in 1..cnt |-> [pc |-> "copy", i |-> j - 1, b |-> <<>>]]
                  /\ err' = rf.err
                  /\ pc' = "last"
                  /\ out' = out
    /\ UNCHANGED <<bad, det>>

\* lines 139-140: first again, whose result next returns
LastReturn ==
    /\ pc = "last"
    /\ HeadDone(pb.items, heap)
    /\ LET f == first(pb.items, heap)
       IN /\ pb' = [pb EXCEPT !.items = f.items]
          /\ err' = f.err
          /\ out' = Append(out, Result(f.p, f.err, HeadId(pb.items), f.items))
          /\ pc' = "idle"
    /\ UNCHANGED <<r, bad, heap, gor, det, chunks>>

----------------------------------------------------------------------------
(* The decode goroutines *)

\* lines 129-130: the goroutine copies its slice out of pb.b
GoCopy(id) ==
    /\ id \in DOMAIN gor
    /\ gor[id].pc = "copy"
    /\ gor' = [gor EXCEPT ![id].pc = "parse",
                          ![id].b = Slice(pb.b, gor[id].i, pb.packetSize)]
    /\ UNCHANGED <<r, bad, pb, heap, pc, err, out, det, chunks>>

\* lines 131-134: the goroutine decodes its copy and writes item.p and
\* item.err, the latter wrapped when it finds next's err not nil
GoParse(id) ==
    /\ id \in DOMAIN gor
    /\ gor[id].pc = "parse"
    /\ LET pr == parsePacket(gor[id].b)
       IN heap' = [heap EXCEPT ![id].err = ItemErr(pr.err, err), ![id].p = pr.p]
    /\ gor' = [gor EXCEPT ![id].pc = "defer"]
    /\ UNCHANGED <<r, bad, pb, pc, err, out, det, chunks>>

\* GoDone of a goroutine that calls item.wg.Done() at once instead of deferring it
GoDoneEarly(id) ==
    /\ id \in DOMAIN gor
    /\ gor[id].pc = "copy"
    /\ heap[id].wg = 1
    /\ heap' = [heap EXCEPT ![id].wg = heap[id].wg - 1]
    /\ UNCHANGED <<r, bad, pb, gor, pc, err, out, det, chunks>>

\* GoDone of a goroutine whose Done stands on the path without error only
GoDoneUnlessError(id) ==
    /\ id \in DOMAIN gor
    /\ gor[id].pc = "defer"
    /\ heap' = IF heap[id].err = Nil
               THEN [heap EXCEPT ![id].wg = heap[id].wg - 1]
               ELSE heap
    /\ gor' = [gor EXCEPT ![id].pc = "done"]
    /\ UNCHANGED <<r, bad, pb, pc, err, out, det, chunks>>

\* line 128: the deferred item.wg.Done()
GoDone(id) ==
    /\ id \in DOMAIN gor
    /\ gor[id].pc = "defer"
    /\ heap' = [heap EXCEPT ![id].wg = heap[id].wg - 1]
    /\ gor' = [gor EXCEPT ![id].pc = "done"]
    /\ UNCHANGED <<r, bad, pb, pc, err, out, det, chunks>>

Copy == \E id \in DOMAIN gor : GoCopy(id)
Parse == \E id \in DOMAIN gor : GoParse(id)
Done == \E id \in DOMAIN gor : GoDone(id)

Next ==
    \/ NewPacketBuffer
    \/ NextCall
    \/ FirstReturn
    \/ ReadChunk
    \/ LastReturn
    \/ Copy
    \/ Parse
    \/ Done

Spec == Init /\ [][Next]_vars

----------------------------------------------------------------------------
(* What the claims speak of *)

\* newPacketBuffer has returned
Built == pc # "new"
\* ... and gave a buffer
Usable == pc \notin {"new", "failed"}

\* the stream next() reads: what the source holds from the cursor that
\* newPacketBuffer left; its i-th packet (i from 1), and that packet's offset
FedLen == r.len - det.start
PacketAt(i) == det.start + (i - 1) * pb.packetSize
StreamPacket(i) == [j \in 1..pb.packetSize |-> PacketAt(i) + j - 1]
WholePackets == det.start <= r.len /\ FedLen % pb.packetSize = 0
NeverFails == r.failAt = NoFail

AutoFailure(e) == Wrap(e, "astits: auto detecting packet size failed")

----------------------------------------------------------------------------
(* C1: for a stream of whole packets, whatever the order in which the decode
   goroutines finish, the i-th next() call that returns a packet or a decode
   error is about the i-th packet of the stream: a returned packet holds
   exactly that packet's bytes, and when the source never fails the call
   returns a packet exactly when that packet is decodable. *)
C1_OrderPreserved ==
    (Usable /\ WholePackets) =>
        \A i \in 1..Len(out) :
            /\ out[i].p # NilPacket => out[i].p = StreamPacket(i)
            /\ (NeverFails /\ i <= FedLen \div pb.packetSize) =>
                   (out[i].p # NilPacket <=> PacketAt(i) \notin bad)

\* the first chunk was returned in order, and of the second chunk the second
\* goroutine has finished while the first has not
C1_Witness ==
    /\ Usable /\ WholePackets /\ NeverFails /\ bad = {}
    /\ Len(out) = ChunkCapacity
    /\ \A i \in 1..Len(out) : out[i].p = StreamPacket(i)
    /\ pc = "last"
    /\ Len(heap) >= ChunkCapacity + 2
    /\ heap[ChunkCapacity + 1].wg = 1
    /\ heap[ChunkCapacity + 2].wg = 0

----------------------------------------------------------------------------
(* C2 *)

\* auto-detection on a source that cannot seek, whose probe read and skip read
\* delivered all they were asked for
SyncedBySkipping ==
    /\ Usable /\ det.auto /\ ~r.seekable
    /\ det.n = probeLen
    /\ det.skipped = SkipLen(pb.packetSize)

FirstChunkRead == Len(chunks) = 1 /\ chunks[1].n >= pb.packetSize

(* C2, as claimed: after auto-detection on such a source the first chunk read
   starts at the first packet of the stream, whose bytes it yields. *)
C2_FirstPacketKept ==
    (SyncedBySkipping /\ FirstChunkRead) =>
        /\ chunks[1].at = 0
        /\ SubSeq(pb.b, 1, pb.packetSize) = [j \in 1..pb.packetSize |-> j - 1]

(* C2, amended: after auto-detection of packet size P on such a source the
   cursor is at offset 2P, the first packet boundary behind the probe window;
   the first chunk read starts there and yields the bytes 2P .. 3P-1 once
   each and in order; no chunk read ever delivers a byte before 2P. *)
C2_SyncedToThirdPacket ==
    SyncedBySkipping =>
        /\ det.start = 2 * pb.packetSize
        /\ \A c \in 1..Len(chunks) : chunks[c].at >= 2 * pb.packetSize
        /\ FirstChunkRead =>
              /\ chunks[1].at = 2 * pb.packetSize
              /\ SubSeq(pb.b, 1, pb.packetSize) =
                     [j \in 1..pb.packetSize |-> 2 * pb.packetSize + j - 1]

C2_Witness == SyncedBySkipping /\ FirstChunkRead /\ r.ps = pb.packetSize

----------------------------------------------------------------------------
(* C3 *)

\* auto-detection was run on a stream of 204-byte packets, each starting with
\* a sync byte, and the probe read delivered the whole window
Probed204 ==
    /\ Built /\ det.auto
    /\ r.ps = 204 /\ r.len >= 2 * 204 /\ 0 \in r.syncAt
    /\ det.n = probeLen

(* C3, as claimed: auto-detection reports packet size 204 for such a stream. *)
C3_Detects204 == Probed204 => (pb.packetSize = 204 /\ det.err = Nil)

(* C3, amended: for such a stream auto-detection never reports 204, its second
   sync byte lying behind the probe window: it fails with the error of a single
   sync byte in the window, unless one of the bytes 188..192 of the stream is a
   sync byte, and then it reports the index of the first of them. *)
C3_Never204 ==
    Probed204 =>
        LET hits == {o \in minPacketSize..(probeLen - 1) : o \in r.syncAt}
        IN /\ pb.packetSize # 204
           /\ IF hits = {}
              THEN /\ pc = "failed"
                   /\ pb.packetSize = 0
                   /\ det.err = AutoFailure(ErrOnlyOneSyncByte)
              ELSE \E o \in hits : /\ pb.packetSize = o
                                   /\ \A q \in hits : o <= q

C3_Witness ==
    /\ Probed204 /\ pc = "failed"
    /\ det.err = AutoFailure(ErrOnlyOneSyncByte)

----------------------------------------------------------------------------
(* C4: when auto-detection runs on a stream of 188-byte packets, each starting
   with a sync byte, and the probe read delivers the 193 bytes of the window,
   the packet size it reports is 188, wherever else the stream holds sync
   bytes; it returns no error unless rewinding or syncing the reader fails. *)
C4_Detects188 ==
    (Built /\ det.auto /\ r.ps = 188 /\ 0 \in r.syncAt /\ det.n >= probeLen) =>
        /\ pb.packetSize = 188
        /\ \/ det.err = Nil
           \/ /\ Len(det.err.ctx) >= 2
              /\ det.err.ctx[2] \in {"astits: rewinding failed",
                                     "astits: reading bytes to sync reader failed"}

C4_Witness ==
    /\ Usable /\ det.auto /\ r.ps = 188 /\ 0 \in r.syncAt /\ det.n >= probeLen
    /\ det.err = Nil
    /\ {187, 190} \cap r.syncAt # {}

----------------------------------------------------------------------------
(* C5, as claimed: whenever the probe read delivers fewer than 193 bytes, with
   or without an error, auto-detection fails with the error of the probe read
   (reading the first 193 bytes failed). *)
C5_ShortProbeRejected ==
    (Built /\ det.auto /\ det.n < probeLen) =>
        /\ pc = "failed"
        /\ Len(det.err.ctx) >= 2
        /\ det.err.ctx[2] = "astits: reading first 193 bytes failed"

----------------------------------------------------------------------------
(* C10: when the first byte of the stream is read and is not the sync byte,
   newPacketBuffer with auto-detection fails with
   ErrPacketMustStartWithASyncByte (wrapped as an auto-detection failure): no
   chunk buffer is made, and no chunk is read, no item made, no packet
   returned. *)
C10_FormatRejected ==
    (Built /\ det.auto /\ r.len > 0 /\ 0 \notin r.syncAt /\ r.failAt # 0) =>
        /\ pc = "failed"
        /\ det.err = AutoFailure(ErrPacketMustStartWithASyncByte)
        /\ pb.b = <<>>
        /\ chunks = <<>> /\ heap = <<>> /\ out = <<>>

C10_Witness ==
    /\ Built /\ det.auto /\ r.len >= probeLen /\ 0 \notin r.syncAt /\ r.failAt = NoFail
    /\ minPacketSize \in r.syncAt
    /\ pc = "failed"

----------------------------------------------------------------------------
(* What the claims on next() speak of *)

\* the packets of the stream next() reads
Packets == FedLen \div pb.packetSize
\* the items made up to and with the chunk that holds packet i, when the
\* stream is one of whole packets and the source never fails
MadeWith(i) ==
    LET upto == ((i - 1) \div ChunkCapacity + 1) * ChunkCapacity
    IN IF upto < Packets THEN upto ELSE Packets

IOError == Wrap(ErrSource, "astits: reading bytes failed")
EndOfStream == Result(NilPacket, ErrNoMorePackets, 0, <<>>)

\* call i returned what decoding packet i gave, and nothing else
Normal(i) == out[i].p = StreamPacket(i) /\ out[i].err = Nil /\ out[i].item = i

----------------------------------------------------------------------------
(* C6: when decoding fails for packet j only, of a stream of whole packets
   read without failure, then in every interleaving call j returns the decode
   error and no packet, the calls j-1 and j+1 return their packets and no
   error, and call j pops item j alone: the items behind it in its chunk stay
   in pb.items. *)
C6_IsolatedDecodeFailure ==
    (Usable /\ WholePackets /\ NeverFails) =>
        \A j \in 1..Len(out) :
            (j <= Packets /\ bad = {PacketAt(j)}) =>
                /\ out[j].p = NilPacket
                /\ out[j].err.cause = ErrDecode.cause
                /\ out[j].item = j
                /\ out[j].pending = MadeWith(j) - j
                /\ j > 1 => Normal(j - 1)
                /\ (j < Len(out) /\ j < Packets) => Normal(j + 1)

\* the failing packet is the first of its chunk, with a neighbour in the
\* chunk before and one in its own chunk
C6_Witness ==
    /\ Usable /\ WholePackets /\ NeverFails
    /\ bad = {PacketAt(ChunkCapacity + 1)}
    /\ Len(out) >= ChunkCapacity + 2
    /\ out[ChunkCapacity + 1].err.cause = ErrDecode.cause
    /\ Normal(ChunkCapacity) /\ Normal(ChunkCapacity + 2)

----------------------------------------------------------------------------
(* C7: when the source fails after m bytes, a chunk read fails with the
   source's error exactly when it needs byte m+1; the next() call that made
   it returns that error wrapped and no packet, makes no item and leaves
   pb.items empty, whatever the bytes read before the failure; and no
   goroutine is ever given a byte of a failed chunk. *)
C7_FatalReadFailure ==
    Usable =>
        \A c \in 1..Len(chunks) :
            LET ch == chunks[c]
                needs == r.failAt # NoFail /\ ch.at + Len(pb.b) > r.failAt
            IN /\ needs <=> ch.err = ErrSource
               /\ ch.err = ErrSource =>
                    /\ ch.n = r.failAt - ch.at
                    /\ ch.made = 0 /\ ch.pending = 0
                    /\ Len(heap) = ch.id0
                    /\ Len(out) >= ch.call =>
                          /\ out[ch.call] = Result(NilPacket, IOError, 0, <<>>)
                    /\ \A id \in DOMAIN gor :
                          \A q \in DOMAIN gor[id].b : gor[id].b[q] < ch.at

\* a chunk read failed behind a whole packet
C7_Witness ==
    /\ Usable
    /\ \E c \in 1..Len(chunks) :
          /\ chunks[c].err = ErrSource
          /\ chunks[c].n > pb.packetSize
          /\ Len(out) >= chunks[c].call
    /\ pb.items = <<>>

----------------------------------------------------------------------------
(* C8: for a stream of k whole packets read without failure, the calls 1..k
   pop the items 1..k (and return the packets 1..k when all are decodable),
   and every call after them returns ErrNoMorePackets, with no packet. *)
C8_CleanExhaustion ==
    (Usable /\ WholePackets /\ NeverFails) =>
        \A i \in 1..Len(out) :
            IF i <= Packets
            THEN /\ out[i].item = i
                 /\ out[i].err # ErrNoMorePackets
                 /\ out[i].err.cause \in {Nil.cause, ErrDecode.cause}
                 /\ bad = {} => Normal(i)
            ELSE out[i] = EndOfStream

\* k is a multiple of the chunk capacity
C8_Witness ==
    /\ Usable /\ WholePackets /\ NeverFails /\ bad = {}
    /\ Packets > 0 /\ Packets % ChunkCapacity = 0
    /\ Len(out) = Packets + 1
    /\ out[Packets + 1] = EndOfStream

\* k = 0
C8_WitnessEmpty ==
    /\ Usable /\ WholePackets /\ NeverFails
    /\ Packets = 0
    /\ Len(out) = 1 /\ out[1] = EndOfStream

----------------------------------------------------------------------------
(* C9: a chunk read that ends short at the end of the stream with a whole
   number of packets is no error: it makes one item per packet read, each
   goroutine gets the bytes of its packet, the call that read the chunk
   returns the first of them, and by the time a call returns ErrNoMorePackets
   each of them was popped by exactly one call before it. *)
C9_ShortLastChunk ==
    Usable =>
        \A c \in 1..Len(chunks) :
            LET ch == chunks[c]
            IN (ch.err = ErrUnexpectedEOF /\ ch.n % pb.packetSize = 0) =>
                 /\ ch.made = ch.n \div pb.packetSize
                 /\ Len(out) >= ch.call =>
                       /\ out[ch.call].item = ch.id0 + 1
                       /\ out[ch.call].err.cause \in {Nil.cause, ErrDecode.cause}
                 /\ \A q \in 1..ch.made :
                       LET id == ch.id0 + q
                           bytes == [j \in 1..pb.packetSize |->
                                        ch.at + (q - 1) * pb.packetSize + j - 1]
                       IN /\ gor[id].pc # "copy" => gor[id].b = bytes
                          /\ \A i \in 1..Len(out) :
                                out[i].item = id =>
                                    out[i].p = IF bytes[1] \in bad THEN NilPacket ELSE bytes
                          /\ \A s \in 1..Len(out) :
                                out[s].err = ErrNoMorePackets =>
                                    Cardinality({i \in 1..(s - 1) : out[i].item = id}) = 1

\* a short last chunk of more than one packet was read and returned, and the
\* stream has ended
C9_Witness ==
    /\ Usable
    /\ \E c \in 1..Len(chunks) :
          /\ chunks[c].err = ErrUnexpectedEOF
          /\ chunks[c].n % pb.packetSize = 0
          /\ chunks[c].made > 1
    /\ Len(out) > 0 /\ out[Len(out)] = EndOfStream

----------------------------------------------------------------------------
(* C11: after successful auto-detection on a source that can seek, the cursor
   is at offset 0; the first chunk read starts at offset 0, and when that read
   does not fail and the first packet is decodable, the first next() call
   returns the packet made of the bytes 0 .. P-1 of the stream, and no
   error. *)
C11_SeekableResync ==
    (Usable /\ det.auto /\ r.seekable) =>
        /\ det.start = 0
        /\ Len(chunks) >= 1 => chunks[1].at = 0
        /\ (Len(out) >= 1 /\ ~ReadFailed(chunks[1].err) /\ 0 \notin bad) =>
              /\ out[1].p = [j \in 1..pb.packetSize |-> j - 1]
              /\ out[1].err = Nil
              /\ out[1].item = 1

C11_Witness ==
    /\ Usable /\ det.auto /\ r.seekable /\ det.n = probeLen
    /\ Len(out) >= 1
    /\ out[1].p = [j \in 1..pb.packetSize |-> j - 1]

----------------------------------------------------------------------------
\* the chunk read that dispatched goroutine id
ChunkOf(id) ==
    CHOOSE c \in 1..Len(chunks) : chunks[c].id0 < id /\ id <= chunks[c].id0 + chunks[c].made

\* the byte at position q of pb.b once chunk read c has returned
RECURSIVE ByteAfter(_, _)
ByteAfter(c, q) ==
    IF c = 0 THEN NoOff
    ELSE IF q <= chunks[c].n THEN chunks[c].at + q - 1
    ELSE ByteAfter(c - 1, q)

\* the slice of goroutine id as pb.b held it when the goroutine was dispatched
SliceAtDispatch(id) ==
    [j \in 1..pb.packetSize |-> ByteAfter(ChunkOf(id), gor[id].i * pb.packetSize + j)]

----------------------------------------------------------------------------
\* goroutine id has not yet signalled: it may still read pb.b or decode
Running(id) == gor[id].pc # "done"

(* C13: whenever the consumer stands at the chunk read (the only write to
   pb.b), pb.items is empty and every goroutine dispatched so far has taken
   its copy, written its item and signalled. *)
C13_RefillAlone ==
    pc = "read" =>
        /\ pb.items = <<>>
        /\ \A id \in DOMAIN gor : ~Running(id) /\ heap[id].wg = 0

C13_Witness ==
    /\ pc = "read"
    /\ Len(chunks) >= 1
    /\ Len(gor) >= 2
    /\ \A id \in DOMAIN gor : ~Running(id)

----------------------------------------------------------------------------
\* the offsets of the bytes chunk read c read from the source
FreshOf(c) == chunks[c].at .. (chunks[c].at + chunks[c].n - 1)

\* goroutine id decodes the last slice of a chunk read that ended inside a packet
ShortFinal(id) ==
    /\ gor[id].pc # "copy"
    /\ chunks[ChunkOf(id)].n % pb.packetSize # 0
    /\ gor[id].i = chunks[ChunkOf(id)].made - 1

(* C14 as stated: when a chunk read returns a number of bytes n that is no
   multiple of the packet size, the goroutine of the final slice hands the
   decoder n mod packetSize bytes, all of them read from the source by this
   chunk read. *)
C14_OnlyFreshBytes ==
    \A id \in DOMAIN gor :
        ShortFinal(id) =>
            /\ Len(gor[id].b) = chunks[ChunkOf(id)].n % pb.packetSize
            /\ \A j \in 1..Len(gor[id].b) : gor[id].b[j] \in FreshOf(ChunkOf(id))

----------------------------------------------------------------------------
\* this step is a chunk read that did not fail: the dispatch loop has run
Refilled == pc = "read" /\ pc' = "last"

\* this step is a next() call returning the packet or the error of an item
Drained == Len(out') = Len(out) + 1 /\ out'[Len(out')].item # 0

(* C15: a chunk read of n bytes that does not fail finds pb.items empty and
   leaves it with ceil(n / packetSize) items; a next() call that returns an
   item's packet or error removes exactly that item, the head; and pb.items
   changes in no other step. *)
C15_PendingLength ==
    [][ /\ Refilled =>
              /\ pb.items = <<>>
              /\ Len(pb'.items) = CeilDiv(chunks'[Len(chunks')].n, pb.packetSize)
        /\ Drained =>
              /\ pb.items # <<>>
              /\ out'[Len(out')].item = pb.items[1]
              /\ pb'.items = Tail(pb.items)
        /\ pb'.items # pb.items => (Refilled \/ Drained)
      ]_vars

C15_Witness ==
    /\ pc = "last"
    /\ Len(chunks) = 2
    /\ Len(out) >= 1
    /\ chunks[2].n % pb.packetSize # 0
    /\ Len(pb.items) = CeilDiv(chunks[2].n, pb.packetSize)
    /\ Len(pb.items) >= 2

----------------------------------------------------------------------------
(* C16: every chunk read found pb.items empty when it started, and the chunk
   reads belong to different next() calls, in the order of the calls: a call
   makes at most one, and it has returned before the call returns. *)
C16_OneReadOnEmpty ==
    /\ \A c \in 1..Len(chunks) :
          /\ chunks[c].pending = 0
          /\ chunks[c].call <= Len(out) + 1
    /\ \A c \in 1..(Len(chunks) - 1) : chunks[c].call < chunks[c + 1].call
    /\ pc = "read" => pb.items = <<>>

C16_Witness ==
    /\ Len(chunks) >= 2
    /\ chunks[1].made >= 2
    /\ chunks[2].call = chunks[1].call + chunks[1].made
    /\ chunks[2].pending = 0

----------------------------------------------------------------------------
(* C17: item.p and item.err are written only by the item's own goroutine, at
   its decode step and while the item's wait group still counts 1; the wait
   group changes only once, from 1 to 0, by that goroutine's deferred Done
   after the decode step; and a next() call returns an item's outcome only
   when the item's wait group is 0, and returns it as the goroutine left it. *)
C17_SignalAfterOutcome ==
    [][ /\ \A id \in DOMAIN heap :
              /\ (heap'[id].p # heap[id].p \/ heap'[id].err # heap[id].err) =>
                    /\ gor[id].pc = "parse" /\ gor'[id].pc = "defer"
                    /\ heap[id].wg = 1 /\ heap'[id].wg = 1
              /\ heap'[id].wg # heap[id].wg =>
                    /\ gor[id].pc = "defer" /\ gor'[id].pc = "done"
                    /\ heap[id].wg = 1 /\ heap'[id].wg = 0
        /\ Drained =>
              LET id == out'[Len(out')].item
              IN /\ heap[id].wg = 0
                 /\ gor[id].pc = "done"
                 /\ out'[Len(out')].p = heap[id].p
                 /\ out'[Len(out')].err = heap[id].err
      ]_vars

C17_Witness ==
    /\ \E k \in 1..Len(out) :
          /\ out[k].item # 0
          /\ heap[out[k].item].wg = 0
          /\ out[k].p = heap[out[k].item].p
    /\ \E id \in DOMAIN gor :
          /\ gor[id].pc = "defer"
          /\ heap[id].wg = 1
          /\ (heap[id].p # NilPacket \/ heap[id].err # Nil)

----------------------------------------------------------------------------
\* the indexes from 188 on at which the probe window holds a sync byte: the
\* window holds the det.n bytes the probe read delivered, then zero bytes
WindowHits ==
    {o \in minPacketSize..(probeLen - 1) : o < det.n /\ o \in r.syncAt}

\* the probe read returned no error and the window starts with a sync byte,
\* so that the loop over the window has run
Scanned ==
    /\ Built /\ det.auto
    /\ det.n >= 1 /\ 0 \in r.syncAt
    /\ ~(Len(det.err.ctx) >= 2 /\ det.err.ctx[2] = "astits: reading first 193 bytes failed")

(* C18: when auto-detection succeeds, the packet size is the least index from
   188 on at which the probe window holds a sync byte; when the loop has run
   and the window holds no sync byte from index 188 on, auto-detection fails
   with the error of a single sync byte, and the source stays where the probe
   read left it: no rewind and no skip read was made. *)
C18_FirstSyncFrom188 ==
    /\ (Usable /\ det.auto) =>
          /\ pb.packetSize \in WindowHits
          /\ \A o \in WindowHits : pb.packetSize <= o
    /\ (Scanned /\ WindowHits = {}) =>
          /\ pc = "failed"
          /\ det.err = AutoFailure(ErrOnlyOneSyncByte)
          /\ r.pos = det.n
          /\ det.skipped = -1

C18_Witness ==
    /\ Scanned /\ WindowHits = {}
    /\ r.seekable /\ det.n = probeLen
    /\ pc = "failed"
    /\ r.pos = probeLen

C18_WitnessDetected ==
    /\ Usable /\ det.auto
    /\ \E o \in WindowHits : o > pb.packetSize

----------------------------------------------------------------------------
(* Fair scheduling: a call of next() in progress goes on (the source read
   returns, a wait that is over returns), and every goroutine that can take a
   step takes it in the end. The caller is free to stop calling next(). *)

\* the goroutines a run can start
MaxItems == MaxPackets + 1

\* the step in which io.ReadFull returns to next (line 113): a ReadChunk step
ReadReturns == pc = "read" /\ pc' \in {"idle", "last"}

\* the runs with a packet size given by the caller
FairInit == Init /\ pb.packetSize = SmallPacketSize

FairSpec ==
    /\ FairInit
    /\ [][Next]_vars
    /\ WF_vars(FirstReturn)
    /\ WF_pc(ReadReturns)
    /\ WF_vars(LastReturn)
    /\ \A id \in 1..MaxItems :
          WF_vars(GoCopy(id)) /\ WF_vars(GoParse(id)) /\ WF_vars(GoDone(id))

\* a next() call is in progress
InCall == pc \in {"first", "read", "last"}

\* the consumer stands in the wg.Wait() of first
Waiting == pc \in {"first", "last"}

(* C19: under fair scheduling every next() call in progress returns; and the
   wait of first is over as soon as the head item has signalled, whatever the
   items behind it have done. *)
C19_EveryCallReturns ==
    /\ [](Waiting /\ HeadDone(pb.items, heap) => ENABLED (FirstReturn \/ LastReturn))
    /\ InCall ~> (pc = "idle")

C19_Witness ==
    /\ Waiting
    /\ Len(pb.items) >= 2
    /\ heap[pb.items[1]].wg = 1
    /\ heap[pb.items[2]].wg = 0
    /\ Len(out) >= 1

----------------------------------------------------------------------------
\* goroutine id has written its item
Decoded(id) == gor[id].pc \in {"defer", "done"}

\* next()'s result err as it stood when goroutine id was dispatched: what
\* io.ReadFull returned (line 113)
ErrAtDispatch(id) == chunks[ChunkOf(id)].err

(* C20 as stated: what a goroutine records in its item is a function of its
   slice and of the decoder's result alone, the one the goroutine computes
   from the state it was dispatched in: the decoder's packet, and the
   decoder's error, wrapped or not as the code wraps it at dispatch; no step
   of the consumer after the dispatch changes it. *)
C20_OutcomeOfSliceAlone ==
    \A id \in DOMAIN gor :
        Decoded(id) =>
            /\ heap[id].p = parsePacket(gor[id].b).p
            /\ heap[id].err = ItemErr(parsePacket(gor[id].b).err, ErrAtDispatch(id))

====
